---- MODULE Spec2Model ----
(***************************************************************************)
(* A model of niqe_calculator.py: the NIQECalculator scorer (lazy load of  *)
(* the population statistics, patch-size resolution, size check, the       *)
(* two-scale patch extraction), the batch driver under __main__, and the   *)
(* numerical leaves (AGGD fit, MSCN transform) at the level of IEEE        *)
(* special values and exact fixed-point arithmetic.                        *)
(***************************************************************************)
EXTENDS Integers, Sequences, FiniteSets, TLC

VARIABLES
    self,          \* the NIQECalculator object: patch_size, params, pop_mu, pop_cov, prec_gammas
    file,          \* what is stored at params_path (environment, fixed for a run)
    build,         \* how the OpenCV build rounds x.5 in cvRound (environment)
    calls,         \* number of niqe() calls made on self so far
    loadmat_calls, \* number of scipy.io.loadmat invocations so far
    first_load,    \* index of the call in which loadmat first returned (0: not yet)
    last,          \* the most recent niqe() call: its image and how it ended
    shadow,        \* a second scorer that is never given the too-small images
    shadow_last,   \* how the shadow scorer's most recent call ended
    small_fails,   \* number of calls that ended in the frame-size AssertionError
    paths,         \* driver: the decoded images behind glob()'s paths
    idx,           \* driver: images consumed by the for loop
    cnt,           \* driver: cnt
    niqe_sum,      \* driver: niqe_sum, kept as the sequence of its addends
    pc,            \* driver: position of the script
    auto_in,       \* get_auto_patch_size called directly: its arguments
    auto_out,      \* get_auto_patch_size called directly: its result
    pin,           \* patch pipeline called directly: its arguments
    pout,          \* patch pipeline called directly: its result
    ain,           \* aggd_features: the field handed in
    aout,          \* aggd_features: what it computed
    min,           \* compute_image_mscn_transform: the image handed in
    mout           \* compute_image_mscn_transform: what it computed

vars == <<self, file, build, calls, loadmat_calls, first_load, last, shadow,
          shadow_last, small_fails, paths, idx, cnt, niqe_sum, pc, auto_in, auto_out,
          pin, pout, ain, aout, min, mout>>

scorerVars == <<self, file, calls, loadmat_calls, first_load, last, shadow, shadow_last,
               small_fails>>
driverVars == <<paths, idx, cnt, niqe_sum, pc>>
autoVars   == <<auto_in, auto_out>>
patchVars  == <<pin, pout>>
aggdVars   == <<ain, aout>>
mscnVars   == <<min, mout>>

----------------------------------------------------------------------------
(* Bounds of the model *)

MaxCalls == 3
MaxDim == 12
MaxPatch == 4
MaxAutoDim == 200
MaxImages == 3
MaxField == 4
MaxImg == 8
MaxGray == 2

----------------------------------------------------------------------------
(* Python and OpenCV primitives *)

\* range(start, stop, step) for step > 0, as the sequence it iterates over
RECURSIVE PyRange(_, _, _)
PyRange(start, stop, step) ==
    IF start >= stop THEN <<>>
    ELSE <<start>> \o PyRange(start + step, stop, step)

\* patch_size / 2 is true division: the result is a float, kept as a fraction
TrueDiv2(n) == [num |-> n, den |-> 2]

AsFloat(n) == [num |-> n, den |-> 1]

\* int(x) of a non-negative float truncates
PyInt(x) == x.num \div x.den

Min2(a, b) == IF a < b THEN a ELSE b

\* cvRound(n * 0.5): n/2 exactly for even n; for odd n the tie goes to the even
\* neighbour (SSE2 / lrint builds) or up (the portable fallback)
RoundModes == {"half_even", "half_up"}

cvRoundHalf(n, mode) ==
    IF n % 2 = 0 THEN n \div 2
    ELSE IF mode = "half_up" THEN n \div 2 + 1
    ELSE IF (n \div 2) % 2 = 0 THEN n \div 2 ELSE n \div 2 + 1

----------------------------------------------------------------------------
(* extract_on_patches and _get_patches_generic *)

\* img[j:j+p, i:i+p]: numpy clips a slice at the array's end
Slice(j, i, p, h, w) ==
    [top |-> j, left |-> i, bottom |-> Min2(j + p, h), right |-> Min2(i + p, w)]

\* A faulty variant of RowStop: the row loop stops one short
RowStopShort(h, p) == h - p

RowStop(h, p) == h - p + 1

ColStop(w, p) == w - p + 1

InnerLoop(j, cols, p, h, w) ==
    [n \in 1..Len(cols) |-> Slice(j, cols[n], p, h, w)]

RECURSIVE OuterLoop(_, _, _, _, _)
OuterLoop(rows, cols, p, h, w) ==
    IF rows = <<>> THEN <<>>
    ELSE InnerLoop(Head(rows), cols, p, h, w) \o OuterLoop(Tail(rows), cols, p, h, w)

\* The patches of an h x w array, in the order the loops append them; range()
\* raises ValueError for a zero step.
extract_on_patches(h, w, patch_size) ==
    LET p == PyInt(patch_size) IN
    IF p = 0 THEN [err |-> "ValueError", patches |-> <<>>]
    ELSE [err |-> "none",
          patches |-> OuterLoop(PyRange(0, RowStop(h, p), p),
                                PyRange(0, ColStop(w, p), p), p, h, w)]

CropH(h, patch_size) ==
    LET hoffset == h % patch_size IN IF hoffset > 0 THEN h - hoffset ELSE h

CropW(w, patch_size) ==
    LET woffset == w % patch_size IN IF woffset > 0 THEN w - woffset ELSE w

NoPatches == [outcome |-> "none", h |-> 0, w |-> 0, h2 |-> 0, w2 |-> 0,
              lvl1 |-> <<>>, lvl2 |-> <<>>]

\* _get_patches_generic on an h x w image: the cropped and half-resolution
\* shapes, the patches of both levels, and how the call ended.
get_patches_generic(h, w, patch_size, mode) ==
    IF h < patch_size \/ w < patch_size
    THEN [NoPatches EXCEPT !.outcome = "SystemExit"]
    ELSE
      LET ch == CropH(h, patch_size)
          cw == CropW(w, patch_size)
          h2 == cvRoundHalf(ch, mode)
          w2 == cvRoundHalf(cw, mode)
          shape == [NoPatches EXCEPT !.h = ch, !.w = cw, !.h2 = h2, !.w2 = w2]
      IN
      IF h2 = 0 \/ w2 = 0 THEN [shape EXCEPT !.outcome = "cv2.error"]
      ELSE
        LET f1 == extract_on_patches(ch, cw, AsFloat(patch_size))
            f2 == extract_on_patches(h2, w2, TrueDiv2(patch_size))
            both == [shape EXCEPT !.lvl1 = f1.patches, !.lvl2 = f2.patches]
        IN
        IF f1.err # "none" \/ f2.err # "none"
        THEN [both EXCEPT !.outcome = "ValueError"]
        ELSE IF Len(f1.patches) # Len(f2.patches)
        THEN [both EXCEPT !.outcome = "ValueError"]      \* np.hstack
        ELSE [both EXCEPT !.outcome = "feats"]

----------------------------------------------------------------------------
(* NIQECalculator: construction, get_auto_patch_size, niqe *)

None == "None"

AutoPatch == [auto |-> TRUE, size |-> 0]

ExplicitPatch(p) == [auto |-> FALSE, size |-> p]

NoParams == [none |-> TRUE, keys |-> {}]

\* __init__: the configuration, the shape grid, and the three unset fields
NewCalculator(patch_size) ==
    [patch_size |-> patch_size, prec_gammas |-> "gamma_range[0.2:10:0.001]",
     params |-> NoParams, pop_mu |-> None, pop_cov |-> None]

\* A faulty variant of patch_sizes: the candidates in ascending order
patch_sizes_ascending == <<8, 16, 32, 48, 64, 96>>

patch_sizes == <<96, 64, 48, 32, 16, 8>>

MinAutoDim == 18

NotFound == 0 - 1

RECURSIVE FirstFit(_, _, _)
FirstFit(sizes, img_w, img_h) ==
    IF sizes = <<>> THEN NotFound
    ELSE IF img_w > Head(sizes) * 2 + 1 /\ img_h > Head(sizes) * 2 + 1
         THEN Head(sizes)
         ELSE FirstFit(Tail(sizes), img_w, img_h)

get_auto_patch_size(img_w, img_h) ==
    IF ~(img_w >= MinAutoDim /\ img_h >= MinAutoDim)
    THEN [raised |-> TRUE, value |-> 0]
    ELSE [raised |-> FALSE, value |-> FirstFit(patch_sizes, img_w, img_h)]

\* The body of the lazy load. scipy.io.loadmat raises on a missing file; a key
\* the file lacks raises KeyError at the subscript. Each assignment before the
\* raise has happened.
LoadParams(obj, f) ==
    IF ~f.readable
    THEN [self |-> obj, raised |-> "FileNotFoundError", loadmat |-> 1]
    ELSE
      LET o1 == [obj EXCEPT !.params = [none |-> FALSE, keys |-> f.keys]] IN
      IF "pop_mu" \notin o1.params.keys
      THEN [self |-> o1, raised |-> "KeyError", loadmat |-> 1]
      ELSE
        LET o2 == [o1 EXCEPT !.pop_mu = f.pop_mu] IN
        IF "pop_cov" \notin o2.params.keys
        THEN [self |-> o2, raised |-> "KeyError", loadmat |-> 1]
        ELSE [self |-> [o2 EXCEPT !.pop_cov = f.pop_cov],
              raised |-> "none", loadmat |-> 1]

\* A faulty variant of LazyLoad: no guard, every call reads the file again
LazyLoadUnguarded(obj, f) == LoadParams(obj, f)

\* if self.params is None: ...
LazyLoad(obj, f) ==
    IF ~obj.params.none THEN [self |-> obj, raised |-> "none", loadmat |-> 0]
    ELSE LoadParams(obj, f)

\* A faulty variant of SizeOk: >= for >
SizeOkNonStrict(M, N, patch_size) ==
    M >= patch_size * 2 + 1 /\ N >= patch_size * 2 + 1

\* The two asserts on the frame size
SizeOk(M, N, patch_size) ==
    M > patch_size * 2 + 1 /\ N > patch_size * 2 + 1

\* A faulty variant of RaiseAssertion: the failing call drops the cached
\* statistics on its way out
RaiseAssertionClearing(obj) == [obj EXCEPT !.pop_mu = None, !.pop_cov = None]

\* An assert that fails propagates out of niqe: nothing catches it, and the
\* object stays as the statements before it left it.
RaiseAssertion(obj) == obj

NoScore == [M |-> 0, N |-> 0, patch_size |-> 0, patches |-> 0,
            pop_mu |-> None, pop_cov |-> None]

NoAuto == [called |-> FALSE, raised |-> FALSE, value |-> 0]

\* The quadratic form of the image's feature statistics against the cached
\* population statistics, kept as the term it is computed from.
Distance(obj, M, N, patch_size, feats) ==
    [M |-> M, N |-> N, patch_size |-> patch_size, patches |-> Len(feats.lvl1),
     pop_mu |-> obj.pop_mu, pop_cov |-> obj.pop_cov]

\* One niqe(img) call on an M x N grayscale image: the object afterwards, how
\* the call ended, and what it did on the way.
niqe(obj, f, M, N, mode) ==
    LET ld == LazyLoad(obj, f)
        base == [self |-> ld.self, outcome |-> ld.raised, loadmat |-> ld.loadmat,
                 auto |-> NoAuto, resolved |-> 0, extracted |-> FALSE,
                 score |-> NoScore]
    IN
    IF ld.raised # "none" THEN base
    ELSE
      LET au == IF ld.self.patch_size.auto
                THEN [called |-> TRUE] @@ get_auto_patch_size(N, M)
                ELSE NoAuto
      IN
      IF au.called /\ au.raised
      THEN [base EXCEPT !.self = RaiseAssertion(ld.self),
                        !.outcome = "AssertionError", !.auto = au]
      ELSE
        LET p == IF au.called THEN au.value ELSE ld.self.patch_size.size
            b2 == [base EXCEPT !.auto = au, !.resolved = p]
        IN
        IF ~SizeOk(M, N, p)
        THEN [b2 EXCEPT !.self = RaiseAssertion(ld.self),
                        !.outcome = "AssertionError"]
        ELSE
          LET feats == get_patches_generic(M, N, p, mode)
              b3 == [b2 EXCEPT !.extracted = TRUE]
          IN
          IF feats.outcome # "feats" THEN [b3 EXCEPT !.outcome = feats.outcome]
          ELSE IF ld.self.pop_mu = None \/ ld.self.pop_cov = None
          THEN [b3 EXCEPT !.outcome = "TypeError"]
          ELSE [b3 EXCEPT !.outcome = "score",
                          !.score = Distance(ld.self, M, N, p, feats)]

----------------------------------------------------------------------------
(* The parameter file and the images a call is given *)

MissingFile == [readable |-> FALSE, keys |-> {}, pop_mu |-> None, pop_cov |-> None]

MatFile(keys) ==
    [readable |-> TRUE, keys |-> keys,
     pop_mu |-> IF "pop_mu" \in keys THEN "mat.pop_mu" ELSE None,
     pop_cov |-> IF "pop_cov" \in keys THEN "mat.pop_cov" ELSE None]

Files == {MissingFile} \cup {MatFile(k) : k \in SUBSET {"pop_mu", "pop_cov"}}

CompleteFile == MatFile({"pop_mu", "pop_cov"})

ExplicitSizes == {3, 8}

Configs == {AutoPatch} \cup {ExplicitPatch(p) : p \in ExplicitSizes}

\* Image sides for the 'auto' configuration: below the smallest candidate's
\* threshold, just above it, and above the next candidate's
AutoDims == {MinAutoDim - 1, MinAutoDim, 2 * MinAutoDim - 2}

\* Image sides around an explicit patch size's threshold
ExplicitDims(p) == {2 * p + 1, 2 * p + 2, 4 * p}

DimsFor(cfg) == IF cfg.auto THEN AutoDims ELSE ExplicitDims(cfg.size)

NoCall == [M |-> 0, N |-> 0, outcome |-> "none", auto |-> NoAuto, resolved |-> 0,
           extracted |-> FALSE, score |-> NoScore]

CallRecord(M, N, r) ==
    [M |-> M, N |-> N, outcome |-> r.outcome, auto |-> r.auto,
     resolved |-> r.resolved, extracted |-> r.extracted, score |-> r.score]

IdleDriver ==
    /\ paths = <<>> /\ idx = 0 /\ cnt = 0 /\ niqe_sum = <<>> /\ pc = "idle"

IdleScorer ==
    /\ self = NewCalculator(AutoPatch) /\ shadow = NewCalculator(AutoPatch)
    /\ file = CompleteFile
    /\ calls = 0 /\ loadmat_calls = 0 /\ first_load = 0 /\ small_fails = 0
    /\ last = NoCall /\ shadow_last = NoCall

NoAutoCall == [done |-> FALSE, raised |-> FALSE, value |-> 0]

IdleAuto == auto_in = [w |-> 0, h |-> 0] /\ auto_out = NoAutoCall

NoPatchCall == [done |-> FALSE, generic |-> NoPatches, direct |-> <<>>]

IdlePatches == pin = [h |-> 0, w |-> 0, patch_size |-> 0] /\ pout = NoPatchCall

NoAggd == [done |-> FALSE, left_mean_sqrt |-> "zero", right_mean_sqrt |-> "zero",
           gamma_hat |-> "zero", r_hat |-> "zero", rhat_norm |-> "zero",
           pos |-> "none", alpha |-> "none"]

IdleAggd == ain = <<>> /\ aout = NoAggd

NoMscn == [done |-> FALSE, h |-> 0, w |-> 0, mscn_num |-> <<>>, var_sq_num |-> <<>>,
           mu_num |-> <<>>]

IdleMscn == min = [h |-> 0, w |-> 0, gray |-> 0] /\ mout = NoMscn

----------------------------------------------------------------------------
(* The scorer under a sequence of niqe() calls *)

Init ==
    /\ \E cfg \in Configs :
         /\ self = NewCalculator(cfg)
         /\ shadow = NewCalculator(cfg)
    /\ file \in Files
    /\ build \in RoundModes
    /\ calls = 0 /\ loadmat_calls = 0 /\ first_load = 0 /\ small_fails = 0
    /\ last = NoCall /\ shadow_last = NoCall
    /\ IdleDriver /\ IdleAuto /\ IdlePatches /\ IdleAggd /\ IdleMscn

\* A call that ended in the frame-size AssertionError
TooSmall(r) == r.outcome = "AssertionError"

Niqe(M, N) ==
    /\ calls < MaxCalls
    /\ LET r == niqe(self, file, M, N, build)
           s == niqe(shadow, file, M, N, build)
       IN
       /\ self' = r.self
       /\ last' = CallRecord(M, N, r)
       /\ calls' = calls + 1
       /\ loadmat_calls' = loadmat_calls + r.loadmat
       /\ first_load' = IF first_load = 0 /\ r.loadmat = 1 /\ ~r.self.params.none
                        THEN calls + 1 ELSE first_load
       /\ small_fails' = small_fails + (IF TooSmall(r) THEN 1 ELSE 0)
       /\ IF TooSmall(r)
          THEN shadow' = shadow /\ shadow_last' = NoCall
          ELSE shadow' = s.self /\ shadow_last' = CallRecord(M, N, s)
    /\ UNCHANGED <<file, build>>
    /\ UNCHANGED <<driverVars, autoVars, patchVars, aggdVars, mscnVars>>

Next == \E M \in DimsFor(self.patch_size), N \in DimsFor(self.patch_size) : Niqe(M, N)

Spec == Init /\ [][Next]_vars

----------------------------------------------------------------------------
(* Claims about the scorer *)

Exceptions == {"FileNotFoundError", "KeyError", "AssertionError", "ValueError",
               "TypeError", "cv2.error"}

Loaded(obj) == ~obj.params.none

\* The step is a niqe() call that ended in the frame-size AssertionError
TooSmallStep == calls' = calls + 1 /\ last'.outcome = "AssertionError"

\* C1 (as stated): once a call has been made, the statistics have been loaded
\* exactly once and that load happened during the first call.
C1_LoadedOnceInFirstCall ==
    calls >= 1 => (loadmat_calls = 1 /\ first_load = 1)

\* C1 (amended): every call invokes loadmat until one invocation returns, which
\* is the first call whenever the file is readable; from then on no call
\* invokes loadmat again or modifies params, pop_mu or pop_cov.
C1_LoadedOnceThenCached ==
    /\ [][Loaded(self) => /\ loadmat_calls' = loadmat_calls
                          /\ self'.params = self.params
                          /\ self'.pop_mu = self.pop_mu
                          /\ self'.pop_cov = self.pop_cov]_vars
    /\ []((calls >= 1 /\ file.readable) => (loadmat_calls = 1 /\ first_load = 1))
    /\ [](~Loaded(self) => (loadmat_calls = calls /\ first_load = 0))

C1_Witness ==
    /\ calls >= 2 /\ loadmat_calls = 1 /\ first_load = 1
    /\ self.pop_mu = "mat.pop_mu" /\ self.pop_cov = "mat.pop_cov"

\* C2: a call whose image has M <= 2p+1 or N <= 2p+1 for the patch size p in
\* force (configured, or every candidate of 'auto') ends in an exception with
\* no score and without reaching feature extraction; a call reaches feature
\* extraction only with both dimensions > 2p+1 for its resolved p.
C2_SmallFrameRaises ==
    calls >= 1 =>
      LET raisedEarly == /\ last.outcome \in Exceptions
                         /\ ~last.extracted
                         /\ last.score = NoScore
          small(p) == last.M <= 2 * p + 1 \/ last.N <= 2 * p + 1
      IN
      /\ (~self.patch_size.auto /\ small(self.patch_size.size)) => raisedEarly
      /\ (self.patch_size.auto
            /\ \A k \in 1..Len(patch_sizes) : small(patch_sizes[k])) => raisedEarly
      /\ (last.resolved # 0 /\ small(last.resolved)) => raisedEarly
      /\ last.extracted => (last.resolved > 0 /\ ~small(last.resolved))
      /\ last.outcome = "score" => last.extracted

C2_Witness ==
    /\ ~self.patch_size.auto
    /\ last.outcome = "AssertionError"
    /\ last.M > 2 * self.patch_size.size + 1
    /\ last.N = 2 * self.patch_size.size + 1

\* C4 (as stated): a call that fails on the frame size leaves the whole object,
\* cached statistics included, as it was, and a later call on a valid image
\* ends as it would have without the failed call.
C4_FailedCallChangesNothing ==
    /\ [][TooSmallStep => self' = self]_vars
    /\ []((calls >= 1 /\ last.outcome # "AssertionError") => shadow_last = last)

\* C4 (amended): a call that fails on the frame size leaves patch_size and the
\* shape grid unchanged and never alters statistics already cached; as the
\* first call it has loaded params, pop_mu and pop_cov before failing. A later
\* call on a valid image ends as it would have without the failed call.
C4_FailedCallIsLocal ==
    /\ [][TooSmallStep =>
            /\ self'.patch_size = self.patch_size
            /\ self'.prec_gammas = self.prec_gammas
            /\ Loaded(self) => self' = self
            /\ ~Loaded(self) =>
                 self' = [self EXCEPT !.params = [none |-> FALSE, keys |-> file.keys],
                                      !.pop_mu = file.pop_mu,
                                      !.pop_cov = file.pop_cov]]_vars
    /\ []((calls >= 1 /\ last.outcome # "AssertionError") => shadow_last = last)

C4_Witness ==
    /\ calls = 2 /\ small_fails = 1 /\ first_load = 1
    /\ last.outcome = "score" /\ shadow_last = last

\* C10: params is set only if pop_mu and pop_cov are both set.
C10_ParamsImpliesStats ==
    Loaded(self) => (self.pop_mu # None /\ self.pop_cov # None)

----------------------------------------------------------------------------
(* get_auto_patch_size called on every width and height up to MaxAutoDim *)

InitAuto ==
    /\ auto_in \in [w : 1..MaxAutoDim, h : 1..MaxAutoDim]
    /\ auto_out = NoAutoCall
    /\ build = "half_even"
    /\ IdleScorer /\ IdleDriver /\ IdlePatches /\ IdleAggd /\ IdleMscn

GetAutoPatchSize ==
    /\ ~auto_out.done
    /\ auto_out' = [done |-> TRUE] @@ get_auto_patch_size(auto_in.w, auto_in.h)
    /\ UNCHANGED <<auto_in, build, scorerVars, driverVars, patchVars, aggdVars, mscnVars>>

NextAuto == GetAutoPatchSize

SpecAuto == InitAuto /\ [][NextAuto]_vars

\* C3: get_auto_patch_size returns the largest candidate c of
\* {96,64,48,32,16,8} with width > 2c+1 and height > 2c+1, and raises, never
\* returning -1, when no candidate qualifies.
C3_LargestFittingCandidate ==
    auto_out.done =>
      LET fit == {c \in {96, 64, 48, 32, 16, 8} :
                    auto_in.w > 2 * c + 1 /\ auto_in.h > 2 * c + 1}
      IN
      IF fit = {}
      THEN auto_out.raised
      ELSE /\ ~auto_out.raised
           /\ auto_out.value \in fit
           /\ \A c \in fit : c <= auto_out.value

C3_Witness ==
    /\ auto_out.done /\ ~auto_out.raised
    /\ auto_out.value = 32
    /\ auto_in.w > 2 * 96 + 1 /\ auto_in.h <= 2 * 48 + 1

----------------------------------------------------------------------------
(* The patch pipeline called on every small image and patch size *)

InitPatches ==
    /\ pin \in [h : 1..MaxDim, w : 1..MaxDim, patch_size : 1..MaxPatch]
    /\ pout = NoPatchCall
    /\ build \in RoundModes
    /\ IdleScorer /\ IdleDriver /\ IdleAuto /\ IdleAggd /\ IdleMscn

GetPatches ==
    /\ ~pout.done
    /\ pout' = [done |-> TRUE,
                generic |-> get_patches_generic(pin.h, pin.w, pin.patch_size, build),
                direct |-> extract_on_patches(pin.h, pin.w,
                                              AsFloat(pin.patch_size)).patches]
    /\ UNCHANGED <<pin, build, scorerVars, driverVars, autoVars, aggdVars, mscnVars>>

NextPatches == GetPatches

SpecPatches == InitPatches /\ [][NextPatches]_vars

\* Extraction at full resolution ran
Extracted(g) == g.outcome \in {"feats", "ValueError"}

\* C6: for H >= p and W >= p, cropping removes exactly the trailing H mod p
\* rows and W mod p columns (no padding), and the patches extracted are the
\* floor(H/p) * floor(W/p) non-overlapping p x p tiles in row-major order,
\* tiles that would cross the boundary being dropped.
C6_PatchCountAndOrder ==
    (pout.done /\ pin.h >= pin.patch_size /\ pin.w >= pin.patch_size) =>
      LET p == pin.patch_size
          nr == pin.h \div p
          nc == pin.w \div p
          g == pout.generic
          tile(k) == [top |-> ((k - 1) \div nc) * p, left |-> ((k - 1) % nc) * p,
                      bottom |-> ((k - 1) \div nc) * p + p,
                      right |-> ((k - 1) % nc) * p + p]
      IN
      /\ g.outcome # "SystemExit"
      /\ g.h = pin.h - (pin.h % p) /\ g.w = pin.w - (pin.w % p)
      /\ g.h <= pin.h /\ g.w <= pin.w
      /\ Len(pout.direct) = nr * nc
      /\ \A k \in 1..(nr * nc) : pout.direct[k] = tile(k)
      /\ \A k \in 1..Len(pout.direct) :
           pout.direct[k].bottom <= pin.h /\ pout.direct[k].right <= pin.w
      /\ Extracted(g) => g.lvl1 = pout.direct

C6_Witness ==
    /\ pout.done /\ pout.generic.outcome = "feats"
    /\ pin.h % pin.patch_size # 0 /\ pin.w % pin.patch_size # 0
    /\ Len(pout.generic.lvl1) = 6 /\ pin.h \div pin.patch_size = 2

\* C9: for every image and patch size p that passes niqe's size check (both
\* dimensions > 2p+1), the half-resolution image yields as many patches at
\* patch size p/2 as the cropped image yields at p, so the two feature
\* matrices are concatenated.
C9_SamePatchCountPerScale ==
    (pout.done /\ pin.h > 2 * pin.patch_size + 1 /\ pin.w > 2 * pin.patch_size + 1) =>
      /\ Len(pout.generic.lvl2) = Len(pout.generic.lvl1)
      /\ pout.generic.outcome = "feats"

----------------------------------------------------------------------------
(* The batch driver under __main__ *)

Undecodable == [decoded |-> FALSE, M |-> 0, N |-> 0]

Decoded(M, N) == [decoded |-> TRUE, M |-> M, N |-> N]

DriverImages ==
    {Undecodable, Decoded(MinAutoDim - 1, MinAutoDim), Decoded(MinAutoDim, MinAutoDim),
     Decoded(2 * MinAutoDim - 2, MinAutoDim)}

\* niqe on what cv2.imdecode returned: None has no .shape, which raises after
\* the lazy load has run
niqe_decoded(obj, f, img, mode) ==
    IF img.decoded THEN niqe(obj, f, img.M, img.N, mode)
    ELSE LET ld == LazyLoad(obj, f) IN
         [self |-> ld.self,
          outcome |-> IF ld.raised # "none" THEN ld.raised ELSE "AttributeError",
          loadmat |-> ld.loadmat, auto |-> NoAuto, resolved |-> 0,
          extracted |-> FALSE, score |-> NoScore]

RECURSIVE SeqsUpTo(_, _)
SeqsUpTo(S, n) ==
    IF n = 0 THEN {<<>>}
    ELSE LET shorter == SeqsUpTo(S, n - 1) IN
         shorter \cup {Append(q, x) : q \in shorter, x \in S}

InitDriver ==
    /\ self = NewCalculator(AutoPatch) /\ shadow = NewCalculator(AutoPatch)
    /\ file \in Files
    /\ build = "half_even"
    /\ calls = 0 /\ loadmat_calls = 0 /\ first_load = 0 /\ small_fails = 0
    /\ last = NoCall /\ shadow_last = NoCall
    /\ paths \in SeqsUpTo(DriverImages, MaxImages)
    /\ idx = 0 /\ cnt = 0 /\ niqe_sum = <<>> /\ pc = "loop"
    /\ IdleAuto /\ IdlePatches /\ IdleAggd /\ IdleMscn

\* One iteration of `for path in tqdm(paths)`: an exception out of niqe is not
\* caught, so it ends the script with a traceback.
DriverIteration ==
    /\ pc = "loop" /\ idx < Len(paths)
    /\ LET r == niqe_decoded(self, file, paths[idx + 1], build) IN
       /\ self' = r.self
       /\ IF r.outcome = "score"
          THEN /\ niqe_sum' = Append(niqe_sum, r.score)
               /\ cnt' = cnt + 1
               /\ idx' = idx + 1
               /\ pc' = "loop"
          ELSE /\ pc' = "traceback"
               /\ UNCHANGED <<niqe_sum, cnt, idx>>
    /\ UNCHANGED <<file, build, calls, loadmat_calls, first_load, last, shadow,
                   shadow_last, small_fails, paths>>
    /\ UNCHANGED <<autoVars, patchVars, aggdVars, mscnVars>>

DriverReport ==
    /\ pc = "loop" /\ idx = Len(paths)
    /\ pc' = IF cnt > 0 THEN "printed_avg" ELSE "printed_none"
    /\ UNCHANGED <<scorerVars, build, paths, idx, cnt, niqe_sum>>
    /\ UNCHANGED <<autoVars, patchVars, aggdVars, mscnVars>>

NextDriver == DriverIteration \/ DriverReport

SpecDriver == InitDriver /\ [][NextDriver]_vars

\* An image niqe scores under the 'auto' configuration
Scorable(img) == img.decoded /\ img.M > 2 * 8 + 1 /\ img.N > 2 * 8 + 1

\* C5: with the parameter file in place, a failure while scoring one image
\* does not abort the batch: the driver goes through all the images, and what
\* it averages is the scores of exactly the images that scored.
C5_BatchSurvivesFailure ==
    file = CompleteFile =>
      /\ pc # "traceback"
      /\ pc \in {"printed_avg", "printed_none"} =>
           /\ idx = Len(paths)
           /\ cnt = Cardinality({k \in 1..Len(paths) : Scorable(paths[k])})
           /\ Len(niqe_sum) = cnt

----------------------------------------------------------------------------
(* aggd_features on IEEE special values *)
(* A non-negative float is kept as its class: zero, pos (finite and        *)
(* positive), inf or nan.                                                  *)

SampleValues == {0 - 1, 0, 1}

\* x + 1
FAdd1(x) == IF x = "zero" THEN "pos" ELSE x

\* math.pow(x, n) for n > 0
FPow(x, n) == x

FMul(a, b) ==
    IF a = "nan" \/ b = "nan" THEN "nan"
    ELSE IF (a = "inf" /\ b = "zero") \/ (a = "zero" /\ b = "inf") THEN "nan"
    ELSE IF a = "inf" \/ b = "inf" THEN "inf"
    ELSE IF a = "zero" \/ b = "zero" THEN "zero"
    ELSE "pos"

\* a / b for b that is not zero
FDiv(a, b) ==
    IF a = "nan" \/ b = "nan" THEN "nan"
    ELSE IF a = "inf" /\ b = "inf" THEN "nan"
    ELSE IF a = "inf" THEN "inf"
    ELSE IF b = "inf" THEN "zero"
    ELSE a

RECURSIVE SumSeq(_)
SumSeq(q) == IF q = <<>> THEN 0 ELSE Head(q) + SumSeq(Tail(q))

\* np.sqrt(np.average(data)) of squares
RootMean(data) == IF SumSeq(data) = 0 THEN "zero" ELSE "pos"

\* np.argmin((prec_gammas - rhat_norm) ** 2): an array of nan, or of inf, has
\* its first element as its minimum; otherwise the nearest grid entry
ArgMin(rhat_norm) ==
    IF rhat_norm \in {"nan", "inf"} THEN "gamma_range[0]" ELSE "gamma_range[nearest]"

aggd_features(patch) ==
    LET imdata2 == [k \in 1..Len(patch) |-> patch[k] * patch[k]]
        left_data == SelectSeq([k \in 1..Len(patch) |->
                                  IF patch[k] < 0 THEN imdata2[k] ELSE 0 - 1],
                               LAMBDA v : v >= 0)
        right_data == SelectSeq([k \in 1..Len(patch) |->
                                   IF patch[k] >= 0 THEN imdata2[k] ELSE 0 - 1],
                                LAMBDA v : v >= 0)
        left_mean_sqrt == IF Len(left_data) > 0 THEN RootMean(left_data) ELSE "zero"
        right_mean_sqrt == IF Len(right_data) > 0 THEN RootMean(right_data) ELSE "zero"
        gamma_hat == IF right_mean_sqrt # "zero"
                     THEN FDiv(left_mean_sqrt, right_mean_sqrt) ELSE "inf"
        r_hat == IF SumSeq(imdata2) # 0 THEN "pos" ELSE "inf"
        rhat_norm ==
            FMul(r_hat,
                 FDiv(FMul(FAdd1(FPow(gamma_hat, 3)), FAdd1(gamma_hat)),
                      FPow(FAdd1(FPow(gamma_hat, 2)), 2)))
        pos == ArgMin(rhat_norm)
    IN
    [done |-> TRUE, left_mean_sqrt |-> left_mean_sqrt,
     right_mean_sqrt |-> right_mean_sqrt, gamma_hat |-> gamma_hat, r_hat |-> r_hat,
     rhat_norm |-> rhat_norm, pos |-> pos, alpha |-> pos]

InitAggd ==
    /\ ain \in SeqsUpTo(SampleValues, MaxField) \ {<<>>}
    /\ aout = NoAggd
    /\ build = "half_even"
    /\ IdleScorer /\ IdleDriver /\ IdleAuto /\ IdlePatches /\ IdleMscn

AggdFeatures ==
    /\ ~aout.done
    /\ aout' = aggd_features(ain)
    /\ UNCHANGED <<ain, build, scorerVars, driverVars, autoVars, patchVars, mscnVars>>

NextAggd == AggdFeatures

SpecAggd == InitAggd /\ [][NextAggd]_vars

\* C7: for every field aggd_features returns a grid entry as alpha; a side
\* with no samples has scale 0, an all-zero field has gamma_hat, r_hat and
\* rhat_norm at +infinity, and none of the three is ever NaN.
C7_AggdNeverNaN ==
    aout.done =>
      /\ aout.alpha \in {"gamma_range[0]", "gamma_range[nearest]"}
      /\ (\A k \in 1..Len(ain) : ain[k] >= 0) => aout.left_mean_sqrt = "zero"
      /\ (\A k \in 1..Len(ain) : ain[k] < 0) => aout.right_mean_sqrt = "zero"
      /\ (\A k \in 1..Len(ain) : ain[k] = 0) =>
           /\ aout.gamma_hat = "inf" /\ aout.r_hat = "inf" /\ aout.rhat_norm = "inf"
      /\ aout.gamma_hat # "nan" /\ aout.r_hat # "nan" /\ aout.rhat_norm # "nan"

----------------------------------------------------------------------------
(* compute_image_mscn_transform in exact fixed-point arithmetic *)

\* exp(-0.5 * ii * ii / sd) for ii = 0..3 and sd = (7/6)^2, in units of 1/40
GaussTaps == <<40, 28, 9, 1>>

\* gen_gauss_window(lw, 7.0/6.0): the weights before the division by sum, and sum
gen_gauss_window(lw) ==
    LET tap(k) == IF k >= lw + 1 THEN GaussTaps[k - lw] ELSE GaussTaps[lw + 2 - k]
        weights == [k \in 1..(2 * lw + 1) |-> tap(k)]
    IN [weights |-> weights, sum |-> SumSeq(weights), lw |-> lw]

\* scipy.ndimage.correlate1d along a line of n samples, mode='constant' (cval
\* 0.0): samples outside the array count as 0. The result is in units of 1/sum.
Correlate(line, win) ==
    [i \in 1..Len(line) |->
       SumSeq([k \in 1..Len(win.weights) |->
                 LET j == i + k - 1 - win.lw IN
                 IF j >= 1 /\ j <= Len(line) THEN win.weights[k] * line[j] ELSE 0])]

\* correlate1d along axis 0 then along axis 1 of an h x w array
Correlate2D(img, h, w, win) ==
    LET cols == [c \in 1..w |-> Correlate([r \in 1..h |-> img[r][c]], win)]
        pass0 == [r \in 1..h |-> [c \in 1..w |-> cols[c][r]]]
    IN [r \in 1..h |-> Correlate(pass0[r], win)]

\* mu_image is mu_num/S^2 and the filtered img**2 is sq/S^2, S the window's sum:
\* var_image^2 = |sq/S^2 - mu_num^2/S^4| and the MSCN numerator img - mu_image
\* are kept over their common denominators S^4 and S^2.
compute_image_mscn_transform(img, h, w) ==
    LET win == gen_gauss_window(3)
        S2 == win.sum * win.sum
        mu == Correlate2D(img, h, w, win)
        sq == Correlate2D([r \in 1..h |-> [c \in 1..w |-> img[r][c] * img[r][c]]],
                          h, w, win)
        abs(x) == IF x < 0 THEN 0 - x ELSE x
    IN
    [done |-> TRUE, h |-> h, w |-> w,
     mu_num |-> mu,
     var_sq_num |-> [r \in 1..h |-> [c \in 1..w |->
                       abs(sq[r][c] * S2 - mu[r][c] * mu[r][c])]],
     mscn_num |-> [r \in 1..h |-> [c \in 1..w |-> img[r][c] * S2 - mu[r][c]]]]

ConstantImage(h, w, gray) == [r \in 1..h |-> [c \in 1..w |-> gray]]

InitMscn ==
    /\ min \in [h : 1..MaxImg, w : 1..MaxImg, gray : 0..MaxGray]
    /\ mout = NoMscn
    /\ build = "half_even"
    /\ IdleScorer /\ IdleDriver /\ IdleAuto /\ IdlePatches /\ IdleAggd

MscnTransform ==
    /\ ~mout.done
    /\ mout' = compute_image_mscn_transform(ConstantImage(min.h, min.w, min.gray),
                                            min.h, min.w)
    /\ UNCHANGED <<min, build, scorerVars, driverVars, autoVars, patchVars, aggdVars>>

NextMscn == MscnTransform

SpecMscn == InitMscn /\ [][NextMscn]_vars

\* C8: for a constant image the outputs have the input's shape, and the local
\* variance and the MSCN coefficient are 0 at every pixel, border included.
C8_ConstantImageIsZero ==
    mout.done =>
      /\ mout.h = min.h /\ mout.w = min.w
      /\ \A r \in 1..min.h, c \in 1..min.w :
           mout.var_sq_num[r][c] = 0 /\ mout.mscn_num[r][c] = 0

====
